---- MODULE Spec2Model ----
(***************************************************************************)
(* A model of app.py: the query normaliser, the symbol detector, the four  *)
(* step narrators and the two request handlers (index, api_solve).         *)
(*                                                                         *)
(* Text is a sequence of characters, each character a one-element string   *)
(* (the division glyph is written "U+00F7").  The algebra engine (SymPy)   *)
(* is the environment: what it answers for a request is held in `eng`.     *)
(***************************************************************************)
EXTENDS Integers, Sequences, FiniteSets, TLC

VARIABLES pc, fn, text, kind, var, eng, out

vars == <<pc, fn, text, kind, var, eng, out>>

(***************************************************************************)
(* Characters and the string methods the code uses.                        *)
(***************************************************************************)
\* The letters that occur in the modelled texts, in code-point order
\* (upper case before lower case), as sorted() orders them.
Letters == <<"D", "F", "I", "N", "S", "X",
             "a", "c", "d", "e", "f", "g", "i", "l", "m", "n", "o", "p",
             "q", "r", "s", "t", "v", "x", "y", "z">>

IsLetter(c) == \E i \in 1..Len(Letters) : Letters[i] = c

Ord(c) == CHOOSE i \in 1..Len(Letters) : Letters[i] = c

IsSpace(c) == c \in {" ", "\t"}

\* str.lower() on one character
LowerChar(c) ==
    CASE c = "D" -> "d"
      [] c = "F" -> "f"
      [] c = "I" -> "i"
      [] c = "N" -> "n"
      [] c = "S" -> "s"
      [] c = "X" -> "x"
      [] OTHER -> c

Lower(s) == [i \in 1..Len(s) |-> LowerChar(s[i])]

\* s.replace(c, r) for a one-character pattern c
RECURSIVE Replace(_, _, _)
Replace(s, c, r) ==
    IF s = <<>> THEN <<>>
    ELSE (IF Head(s) = c THEN r ELSE <<Head(s)>>) \o Replace(Tail(s), c, r)

RECURSIVE LStrip(_)
LStrip(s) ==
    IF s # <<>> /\ IsSpace(Head(s)) THEN LStrip(Tail(s)) ELSE s

RECURSIVE RStrip(_)
RStrip(s) ==
    IF s # <<>> /\ IsSpace(s[Len(s)]) THEN RStrip(SubSeq(s, 1, Len(s) - 1)) ELSE s

\* s.strip()
Strip(s) == RStrip(LStrip(s))

\* s.startswith(p)
StartsWith(s, p) == Len(s) >= Len(p) /\ SubSeq(s, 1, Len(p)) = p

\* p in s
Contains(s, p) ==
    \E i \in 1..(Len(s) - Len(p) + 1) : SubSeq(s, i, i + Len(p) - 1) = p

\* s.split(c) for a one-character separator: always at least one part
RECURSIVE SplitFrom(_, _, _)
SplitFrom(s, c, cur) ==
    IF s = <<>> THEN <<cur>>
    ELSE IF Head(s) = c THEN <<cur>> \o SplitFrom(Tail(s), c, <<>>)
    ELSE SplitFrom(Tail(s), c, Append(cur, Head(s)))

Split(s, c) == SplitFrom(s, c, <<>>)

\* s[a:-1] of Python, a counted from 0
SliceToLast(s, a) == SubSeq(s, a + 1, Len(s) - 1)

(***************************************************************************)
(* sanitize_input                                                          *)
(***************************************************************************)
StripOneEach(s) ==
    LET l == IF s # <<>> /\ IsSpace(Head(s)) THEN Tail(s) ELSE s
    IN  IF l # <<>> /\ IsSpace(l[Len(l)]) THEN SubSeq(l, 1, Len(l) - 1) ELSE l

sanitize_input_strip_once(t) ==
    StripOneEach(Replace(Replace(t, "^", <<"*", "*">>), "U+00F7", <<"/">>))

sanitize_input(t) ==
    Strip(Replace(Replace(t, "^", <<"*", "*">>), "U+00F7", <<"/">>))

(***************************************************************************)
(* detect_symbols, get_primary_symbol                                      *)
(***************************************************************************)
\* re.findall(r"[A-Za-z]+", s): the maximal runs of letters, left to right
RECURSIVE LetterRuns(_, _)
LetterRuns(s, cur) ==
    IF s = <<>> THEN (IF cur = <<>> THEN <<>> ELSE <<cur>>)
    ELSE IF IsLetter(Head(s)) THEN LetterRuns(Tail(s), Append(cur, Head(s)))
    ELSE (IF cur = <<>> THEN <<>> ELSE <<cur>>) \o LetterRuns(Tail(s), <<>>)

\* u < v as Python compares strings
RECURSIVE LexLess(_, _)
LexLess(u, v) ==
    IF v = <<>> THEN FALSE
    ELSE IF u = <<>> THEN TRUE
    ELSE IF Head(u) = Head(v) THEN LexLess(Tail(u), Tail(v))
    ELSE Ord(Head(u)) < Ord(Head(v))

\* sorted(S) for a set S of strings
RECURSIVE Sorted(_)
Sorted(S) ==
    IF S = {} THEN <<>>
    ELSE LET m == CHOOSE u \in S : \A v \in S \ {u} : LexLess(u, v)
         IN  <<m>> \o Sorted(S \ {m})

Range(f) == {f[i] : i \in DOMAIN f}

funcs == { <<"s","i","n">>, <<"c","o","s">>, <<"t","a","n">>, <<"l","o","g">>,
           <<"e","x","p">>, <<"s","q","r","t">>, <<"d","i","f","f">>,
           <<"i","n","t","e","g","r","a","t","e">>, <<"s","o","l","v","e">>,
           <<"s","i","m","p","l","i","f","y">> }

DefaultSymbol == <<"x">>

detect_symbols_case_sensitive(expr_str) ==
    LET names == Sorted(Range(LetterRuns(expr_str, <<>>)))
        keep(n) == n \notin funcs
        kept == SelectSeq(names, keep)
    IN  IF kept = <<>> THEN <<DefaultSymbol>> ELSE kept

\* The names of the symbols returned, in order (one name: a single symbol).
detect_symbols(expr_str) ==
    LET names == Sorted(Range(LetterRuns(expr_str, <<>>)))
        keep(n) == Lower(n) \notin funcs
        kept == SelectSeq(names, keep)
    IN  IF kept = <<>> THEN <<DefaultSymbol>> ELSE kept

get_primary_symbol(symbols) ==
    IF symbols # <<>> THEN symbols[1] ELSE DefaultSymbol

(***************************************************************************)
(* The algebra engine.  What it makes of a request is the record `eng`:   *)
(*   lhs, rhs |-> the two sides of the equation as the engine parses      *)
(*                them: [poly |-> it is a polynomial in the detected      *)
(*                symbols, co |-> <<c0, c1, c2, c3>>, its coefficients    *)
(*                in the first symbol],                                    *)
(*   rejects  |-> sympify raises on the request's expression although     *)
(*                its syntax is sound,                                     *)
(*   fault    |-> the engine function that raises on this request.        *)
(* A number is <<p, q, d, den>>, the value (p + q*sqrt(d)) / den.          *)
(***************************************************************************)
Last(s) == s[Len(s)]

RECURSIVE ParenDepths(_, _)
ParenDepths(s, d) ==
    IF s = <<>> THEN <<d>>
    ELSE LET n == IF Head(s) = "(" THEN d + 1
                  ELSE IF Head(s) = ")" THEN d - 1 ELSE d
         IN  <<n>> \o ParenDepths(Tail(s), n)

\* Texts that are no Python expression whatever the engine knows.
SyntaxError(t) ==
    LET u == Strip(t)
        depths == ParenDepths(u, 0)
    IN  \/ u = <<>>
        \/ Head(u) \in {"/", "*", ")", ",", "="}
        \/ Last(u) \in {"/", "*", "(", ",", "=", "+", "-"}
        \/ Last(depths) # 0
        \/ \E i \in 1..Len(depths) : depths[i] < 0
        \/ \E i \in 1..Len(u) :
              /\ u[i] = "="
              /\ i = 1 \/ u[i - 1] # "="
              /\ i = Len(u) \/ u[i + 1] # "="

\* sp.sympify(t) returns (TRUE) or raises (FALSE)
sympify_ok(t, e) == ~SyntaxError(t) /\ ~e.rejects

Abs(n) == IF n < 0 THEN -n ELSE n

RECURSIVE Gcd(_, _)
Gcd(m, n) == IF n = 0 THEN m ELSE Gcd(n, m % n)

IsSquare(d) == \E s \in 0..d : s * s = d

Isqrt(d) == CHOOSE s \in 0..d : s * s = d

\* The canonical form of (p + q*sqrt(d)) / den, den # 0: two canonical
\* forms over the same d are equal exactly when the numbers are.
Canon(p, q, d, den) ==
    LET sg == IF den < 0 THEN -1 ELSE 1
        rat(n, m) == LET g == Gcd(Abs(n), Abs(m))
                     IN  <<(sg * n) \div g, 0, 0, (sg * m) \div g>>
    IN  IF q = 0 \/ d = 0 THEN rat(p, den)
        ELSE IF d > 0 /\ IsSquare(d) THEN rat(p + q * Isqrt(d), den)
        ELSE LET g == Gcd(Gcd(Abs(p), Abs(q)), Abs(den))
             IN  <<(sg * p) \div g, (sg * q) \div g, d, (sg * den) \div g>>

\* lhs_e - rhs_e, simplified and expanded
Difference(l, r) == [i \in 1..Len(l.co) |-> l.co[i] - r.co[i]]

Degree_ignores_linear_term(co) ==
    LET S == {i \in 1..Len(co) : co[i] # 0 \/ i = 2}
    IN  (CHOOSE i \in S : \A j \in S : j <= i) - 1

\* Poly(...).degree(): the highest power with a non-zero coefficient, -oo
\* (here -1) for the zero polynomial
Degree(co) ==
    LET S == {i \in 1..Len(co) : co[i] # 0}
    IN  IF S = {} THEN -1 ELSE (CHOOSE i \in S : \A j \in S : j <= i) - 1

\* Poly.all_coeffs(): from the leading coefficient down; [0] for zero
AllCoeffs(co) ==
    LET d == Degree(co)
    IN  IF d < 0 THEN <<0>> ELSE [i \in 1..(d + 1) |-> co[d + 2 - i]]

\* What the engine cannot be asked twice: a solution list the model does
\* not look into (degree above 2, no polynomial, several symbols).
Opaque == <<0, 0, 0, 0>>

\* r is a root of c0 + c1*x + c2*x^2
IsRoot(co, r) ==
    /\ co[3] * (r[1] * r[1] + r[2] * r[2] * r[3]) + co[2] * r[1] * r[4]
         + co[1] * r[4] * r[4] = 0
    /\ r[2] = 0 \/ 2 * co[3] * r[1] + co[2] * r[4] = 0

MaxAbs(co) == CHOOSE m \in {Abs(co[i]) : i \in 1..Len(co)} :
                  \A i \in 1..Len(co) : Abs(co[i]) <= m

\* The solutions of the equation co = 0, degree 1 or 2: every number of
\* the field the roots live in that satisfies it.
RootSet(co) ==
    LET m == MaxAbs(co)
        d == co[2] * co[2] - 4 * co[3] * co[1]
    IN  {r \in {Canon(p, q, d, den) : p \in (-4 * m)..(4 * m), q \in {-1, 0, 1},
                                      den \in 1..(2 * m)} : IsRoot(co, r)}

RootLess(u, v) ==
    \/ u[1] * v[4] < v[1] * u[4]
    \/ u[1] * v[4] = v[1] * u[4] /\ u[2] < v[2]

RECURSIVE RootList(_)
RootList(S) ==
    IF S = {} THEN <<>>
    ELSE LET m == CHOOSE u \in S : \A v \in S \ {u} : RootLess(u, v)
         IN  <<m>> \o RootList(S \ {m})

\* sp.solve(eq, syms): each solution once
sp_solve(e, syms) ==
    LET co == Difference(e.lhs, e.rhs)
    IN  IF e.lhs.poly /\ e.rhs.poly /\ Len(syms) = 1 /\ Degree(co) \in {1, 2}
        THEN RootList(RootSet(co))
        ELSE <<Opaque>>

(***************************************************************************)
(* Outcomes.  result.kind is "none" (None), "list" (a list of solutions),  *)
(* "expr" (one expression) or "number"; `raised` says that the function    *)
(* let an exception out instead of returning; `calls` lists the engine     *)
(* functions called, in order.                                             *)
(***************************************************************************)
Absent == [kind |-> "none", val |-> <<>>]

Ret(result, steps, calls, branch, usedVar) ==
    [result |-> result, steps |-> steps, raised |-> FALSE, calls |-> calls,
     branch |-> branch, usedVar |-> usedVar]

Raise(calls, branch) ==
    [result |-> Absent, steps |-> <<>>, raised |-> TRUE, calls |-> calls,
     branch |-> branch, usedVar |-> <<>>]

\* Whether a run of unguarded engine calls meets the faulty function, and
\* the calls made up to and including it.
Hits(path, fault) == \E i \in 1..Len(path) : path[i] = fault

UpTo(path, fault) ==
    SubSeq(path, 1, CHOOSE i \in 1..Len(path) :
                        path[i] = fault /\ \A j \in 1..(i - 1) : path[j] # fault)

(***************************************************************************)
(* solve_equation_steps                                                    *)
(***************************************************************************)
QuadraticRoots_same_sign(a, b, disc) ==
    <<Canon(-b, 1, disc, 2 * a), Canon(-b, 1, disc, 2 * a)>>

\* x1 = (-b + sqrt(disc)) / (2a), x2 = (-b - sqrt(disc)) / (2a), simplified
QuadraticRoots(a, b, disc) ==
    <<Canon(-b, 1, disc, 2 * a), Canon(-b, -1, disc, 2 * a)>>

ExactlyOneEquals_at_least_one(lhs_rhs) == Len(lhs_rhs) >= 2

\* len(lhs_rhs) != 2 is the malformed case
ExactlyOneEquals(lhs_rhs) == Len(lhs_rhs) = 2

SolveLinear(e, syms, co, pre, steps0) ==
    LET coeffs == AllCoeffs(co)
        a == coeffs[1]
        b == coeffs[2]
        steps1 == Append(steps0, "Linear equation with a=, b=")
    IN  IF Len(syms) > 1 \/ e.fault = "all_coeffs"
        THEN Raise(pre \o <<"all_coeffs">>, "linear")
        ELSE IF a = 0
        THEN IF e.fault = "solve"
             THEN Raise(pre \o <<"all_coeffs", "solve">>, "linear_a_zero")
             ELSE Ret([kind |-> "list", val |-> sp_solve(e, syms)],
                      Append(steps1, "Coefficient a is 0 -> no or infinite solutions."),
                      pre \o <<"all_coeffs", "solve">>, "linear_a_zero", <<>>)
        ELSE LET path == <<"all_coeffs", "nsimplify", "simplify">>
             IN  IF Hits(path, e.fault)
                 THEN Raise(pre \o UpTo(path, e.fault), "linear")
                 ELSE Ret([kind |-> "list", val |-> <<Canon(-b, 0, 0, a)>>],
                          Append(steps1, "Solve:  = -b/a = "),
                          pre \o path, "linear", <<>>)

SolveQuadratic(e, syms, co, pre, steps0) ==
    LET coeffs == AllCoeffs(co)
        a == coeffs[1]
        b == coeffs[2]
        c == coeffs[3]
        disc == b * b - 4 * a * c
        path == <<"all_coeffs", "pretty", "lt", "sqrt", "pretty", "pretty",
                  "simplify", "simplify">>
        steps1 == steps0 \o <<"Quadratic detected with a=, b=, c=",
                              "Discriminant = b^2 - 4ac = ">>
        steps2 == IF disc < 0 THEN Append(steps1, "Discriminant < 0 -> complex roots")
                  ELSE steps1
    IN  IF Len(syms) > 1 \/ e.fault = "all_coeffs"
        THEN Raise(pre \o <<"all_coeffs">>, "quadratic")
        ELSE IF Hits(path, e.fault)
        THEN Raise(pre \o UpTo(path, e.fault), "quadratic")
        ELSE Ret([kind |-> "list", val |-> QuadraticRoots(a, b, disc)],
                 Append(steps2, "Roots: x = (-b +- sqrt(Discriminant)) / (2a) -> "),
                 pre \o path, "quadratic", <<>>)

SolveGeneral(e, syms, pre, steps0) ==
    IF e.fault = "solve"
    THEN Ret(Absent, <<"Could not solve: ">>, pre \o <<"solve">>, "general", <<>>)
    ELSE Ret([kind |-> "list", val |-> sp_solve(e, syms)],
             steps0 \o <<"Using SymPy general solve", "Solutions: ">>,
             pre \o <<"solve", "pretty">>, "general", <<>>)

solve_equation_steps(equation_str, e) ==
    LET normalized == sanitize_input(equation_str)
        lhs_rhs == Split(normalized, "=")
        syms == detect_symbols(normalized)
        co == Difference(e.lhs, e.rhs)
        head == <<"Eq", "simplify", "pretty", "expand", "pretty">>
        pre == <<"symbols", "sympify", "sympify">> \o head
                 \o <<"expand", "Poly", "degree">>
        steps0 == <<"Original equation: ", "Simplify to one side:  = 0">>
        hasDegree == e.lhs.poly /\ e.rhs.poly /\ e.fault # "Poly"
    IN  IF ~ExactlyOneEquals(lhs_rhs)
        THEN Ret(Absent, <<"Equation must contain exactly one '=' sign.">>,
                 <<>>, "malformed", <<>>)
        ELSE IF ~sympify_ok(lhs_rhs[1], e)
        THEN Ret(Absent, <<"Parsing error: ">>, <<"symbols", "sympify">>,
                 "parse_error", <<>>)
        ELSE IF ~sympify_ok(lhs_rhs[2], e)
        THEN Ret(Absent, <<"Parsing error: ">>, <<"symbols", "sympify", "sympify">>,
                 "parse_error", <<>>)
        ELSE IF Hits(head, e.fault)
        THEN Raise(<<"symbols", "sympify", "sympify">> \o UpTo(head, e.fault), "head")
        ELSE IF hasDegree /\ Degree(co) = 1
        THEN SolveLinear(e, syms, co, pre, steps0)
        ELSE IF hasDegree /\ Degree(co) = 2
        THEN SolveQuadratic(e, syms, co, pre, steps0)
        ELSE SolveGeneral(e, syms,
                          IF e.lhs.poly /\ e.rhs.poly /\ e.fault # "Poly"
                          THEN pre
                          ELSE SubSeq(pre, 1, Len(pre) - 1),
                          steps0)

(***************************************************************************)
(* simplify_steps, derivative_steps, integral_steps.  The caller's var is  *)
(* <<>> for None and <<name>> for a string.                                *)
(***************************************************************************)
simplify_steps(expr_str, e) ==
    LET expr == sanitize_input(expr_str)
        path == <<"pretty", "simplify", "pretty">>
    IN  IF ~sympify_ok(expr, e)
        THEN Ret(Absent, <<"Parsing error: ">>, <<"symbols", "sympify">>,
                 "parse_error", <<>>)
        ELSE IF Hits(path, e.fault)
        THEN Raise(<<"symbols", "sympify">> \o UpTo(path, e.fault), "simplify")
        ELSE Ret([kind |-> "expr", val |-> <<>>], <<"Original: ", "Simplified: ">>,
                 <<"symbols", "sympify">> \o path, "simplify", <<>>)

\* The (expr_part, var) pair the call-form extraction leaves: prefix is
\* 'diff(' or 'integrate('.
CallForm(expr_str, v, prefix) ==
    IF StartsWith(Lower(Strip(expr_str)), prefix)
    THEN LET inner == SliceToLast(Strip(expr_str), Len(prefix))
             parts == Split(inner, ",")
         IN  [expr_part |-> parts[1],
              var |-> IF Len(parts) > 1 THEN <<Strip(parts[2])>> ELSE <<>>]
    ELSE [expr_part |-> expr_str, var |-> v]

\* The variable differentiated or integrated over, and whether
\* detect_symbols was asked for it.
ChosenVar(cf) ==
    IF cf.var = <<>>
    THEN [name |-> get_primary_symbol(detect_symbols(cf.expr_part)), detected |-> TRUE]
    ELSE [name |-> cf.var[1], detected |-> FALSE]

derivative_steps(expr_str, v, e) ==
    LET cf == CallForm(sanitize_input(expr_str), v, <<"d", "i", "f", "f", "(">>)
        cv == ChosenVar(cf)
        pre == (IF cv.detected THEN <<"symbols">> ELSE <<>>) \o <<"sympify">>
        path == <<"pretty", "diff", "pretty">>
    IN  IF ~sympify_ok(cf.expr_part, e)
        THEN Ret(Absent, <<"Parsing error: ">>, pre, "parse_error", cv.name)
        ELSE IF e.fault = "pretty"
        THEN Raise(pre \o <<"pretty">>, "diff")
        ELSE IF e.fault = "diff" \/ cv.name = <<>>
        THEN Raise(pre \o <<"pretty", "diff">>, "diff")
        ELSE Ret([kind |-> "expr", val |-> <<>>],
                 <<"Function: ", "Differentiate w.r.t ", "Result: ">>,
                 pre \o path, "diff", cv.name)

integral_steps(expr_str, v, e) ==
    LET cf == CallForm(sanitize_input(expr_str), v,
                       <<"i", "n", "t", "e", "g", "r", "a", "t", "e", "(">>)
        cv == ChosenVar(cf)
        pre == (IF cv.detected THEN <<"symbols">> ELSE <<>>) \o <<"sympify">>
    IN  IF ~sympify_ok(cf.expr_part, e)
        THEN Ret(Absent, <<"Parsing error: ">>, pre, "parse_error", cv.name)
        ELSE IF e.fault = "pretty"
        THEN Raise(pre \o <<"pretty">>, "integrate")
        ELSE IF e.fault = "integrate" \/ cv.name = <<>>
        THEN Ret(Absent, <<"Could not integrate: ">>,
                 pre \o <<"pretty", "integrate">>, "integrate", cv.name)
        ELSE Ret([kind |-> "expr", val |-> <<>>],
                 <<"Integrand: ", "Integrate w.r.t ", "Result:  + C">>,
                 pre \o <<"pretty", "integrate", "pretty">>, "integrate", cv.name)

(***************************************************************************)
(* The request handlers: index (the page) and api_solve (the JSON route).  *)
(* A handler's outcome adds `op`, the operations it ran in order, and the  *)
(* HTTP status.                                                            *)
(***************************************************************************)
S_eq == <<"=">>
S_slash == <<"/">>
S_diff == <<"d", "i", "f", "f">>
S_dd == <<"d", "/", "d">>
S_int == <<"i", "n", "t", "(">>
S_integrate == <<"i", "n", "t", "e", "g", "r", "a", "t", "e">>
S_simplify == <<"s", "i", "m", "p", "l", "i", "f", "y">>

With(o, op, status) ==
    [op |-> op, status |-> status, result |-> o.result, steps |-> o.steps,
     raised |-> o.raised, calls |-> o.calls, branch |-> o.branch,
     usedVar |-> o.usedVar, str |-> <<>>, names |-> <<>>]

\* The operation index selects for a sanitized query and a mode.
IndexSelect(query, k) ==
    LET qlow == Lower(query)
    IN  IF k = "auto"
        THEN IF Contains(query, S_eq) THEN "solve"
             ELSE IF StartsWith(qlow, S_diff) \/ StartsWith(qlow, S_dd)
                     \/ Contains(qlow, S_dd) THEN "diff"
             ELSE IF StartsWith(qlow, S_integrate) \/ StartsWith(qlow, S_int)
                     \/ Contains(qlow, S_integrate) THEN "integrate"
             ELSE IF StartsWith(qlow, S_simplify) \/ Contains(query, S_slash)
                     \/ Contains(qlow, S_simplify) THEN "simplify"
             ELSE "evaluate"
        ELSE IF k = "solve" THEN "solve"
        ELSE IF k = "diff" THEN "diff"
        ELSE IF k = "integrate" THEN "integrate"
        ELSE IF k = "simplify" THEN "simplify"
        ELSE "none"

\* The operation api_solve selects for a sanitized, non-empty query.
ApiSelect(query, k) ==
    LET qlow == Lower(query)
    IN  IF Contains(query, S_eq) /\ k \in {"auto", "solve"} THEN "solve"
        ELSE IF k \in {"auto", "diff"}
                /\ (StartsWith(qlow, S_diff) \/ Contains(qlow, S_dd)) THEN "diff"
        ELSE IF k \in {"auto", "integrate"}
                /\ (StartsWith(qlow, S_integrate) \/ StartsWith(qlow, S_int)
                    \/ Contains(qlow, S_integrate)) THEN "integrate"
        ELSE IF k \in {"auto", "simplify"}
                /\ (StartsWith(qlow, S_simplify) \/ Contains(qlow, S_simplify)
                    \/ Contains(query, S_slash)) THEN "simplify"
        ELSE "evaluate"

\* index's last auto rule: evaluate, any failure falling back to simplify
IndexEvaluate(query, e) ==
    IF sympify_ok(query, e) /\ e.fault \notin {"N", "pretty"}
    THEN With(Ret([kind |-> "number", val |-> <<>>],
                  <<"Parsed value: ", "Numeric evaluation: ">>,
                  <<"sympify", "N", "pretty">>, "evaluate", <<>>),
              <<"evaluate">>, 200)
    ELSE LET o == simplify_steps(query, e)
             tried == IF ~sympify_ok(query, e) THEN <<"sympify">>
                      ELSE IF e.fault = "N" THEN <<"sympify", "N">>
                      ELSE <<"sympify", "N", "pretty">>
         IN  With([o EXCEPT !.calls = tried \o o.calls],
                  <<"evaluate", "simplify">>, 200)

\* except Exception: steps = ["Error processing: ..."], result = None
IndexCaught(h) ==
    IF h.raised
    THEN [h EXCEPT !.raised = FALSE, !.result = Absent,
                   !.steps = <<"Error processing: ">>]
    ELSE h

index(raw_query, k, e) ==
    LET query == sanitize_input(raw_query)
        sel == IndexSelect(query, k)
    IN  IndexCaught(
          CASE sel = "solve" -> With(solve_equation_steps(query, e), <<"solve">>, 200)
            [] sel = "diff" -> With(derivative_steps(query, <<>>, e), <<"diff">>, 200)
            [] sel = "integrate" ->
                 With(integral_steps(query, <<>>, e), <<"integrate">>, 200)
            [] sel = "simplify" -> With(simplify_steps(query, e), <<"simplify">>, 200)
            [] sel = "evaluate" -> IndexEvaluate(query, e)
            [] OTHER -> With(Ret(Absent, <<>>, <<>>, "none", <<>>), <<>>, 200))

\* [str(s) for s in sol] if sol else None
ApiList(o) ==
    IF o.result.kind = "list" /\ o.result.val # <<>>
    THEN o ELSE [o EXCEPT !.result = Absent]

\* str(out): the text "None" when the narrator returned None
ApiStr(o) ==
    IF o.raised THEN o
    ELSE IF o.result.kind = "none"
    THEN [o EXCEPT !.result = [kind |-> "str_none", val |-> <<>>]]
    ELSE [o EXCEPT !.result = [kind |-> "str", val |-> o.result.val]]

ApiEvaluate(query, e) ==
    IF ~sympify_ok(query, e) THEN Raise(<<"sympify">>, "evaluate")
    ELSE IF e.fault = "N" THEN Raise(<<"sympify", "N">>, "evaluate")
    ELSE Ret([kind |-> "str", val |-> <<>>], <<"Parsed: ">>,
             <<"sympify", "N">>, "evaluate", <<>>)

\* except Exception: {"error": ...}, 500
ApiCaught(h) ==
    IF h.raised
    THEN [h EXCEPT !.raised = FALSE, !.result = Absent, !.steps = <<>>,
                   !.status = 500]
    ELSE h

api_solve(raw_query, k, e) ==
    LET query == sanitize_input(raw_query)
        sel == ApiSelect(query, k)
    IN  IF query = <<>>
        THEN With(Ret(Absent, <<>>, <<>>, "no_query", <<>>), <<>>, 400)
        ELSE ApiCaught(
          CASE sel = "solve" ->
                 With(ApiList(solve_equation_steps(query, e)), <<"solve">>, 200)
            [] sel = "diff" ->
                 With(ApiStr(derivative_steps(query, <<>>, e)), <<"diff">>, 200)
            [] sel = "integrate" ->
                 With(ApiStr(integral_steps(query, <<>>, e)), <<"integrate">>, 200)
            [] sel = "simplify" ->
                 With(ApiStr(simplify_steps(query, e)), <<"simplify">>, 200)
            [] OTHER -> With(ApiEvaluate(query, e), <<"evaluate">>, 200))

(***************************************************************************)
(* The inputs.                                                             *)
(***************************************************************************)
\* Longest text of the free-form families, counted in fragments.
MaxFrags == 3

\* Largest absolute value of a coefficient of the equations' left sides.
MaxCoef == 2

RECURSIVE Concat(_)
Concat(ss) == IF ss = <<>> THEN <<>> ELSE Head(ss) \o Concat(Tail(ss))

\* Every concatenation of at most MaxFrags fragments of F
TextsOf(F) ==
    {Concat(ss) : ss \in UNION {[1..n -> F] : n \in 0..MaxFrags}}

\* For sanitize_input and detect_symbols
TextFrags == { <<"^">>, <<"U+00F7">>, <<" ">>, <<"\t">>, <<"x">>, <<"y">>,
               <<"1">>, <<"s", "i", "n">>, <<"S", "i", "n">>,
               <<"s", "q", "r", "t">> }

\* For the handlers' choice of operation
ModeFrags == { <<"=">>, <<"/">>, <<"^">>, <<" ">>, <<"U+00F7">>, <<"x">>, <<"2">>,
               S_diff, <<"D", "I", "F", "F">>, S_dd, S_int, S_integrate,
               S_simplify }

Kinds == {"auto", "solve", "diff", "integrate", "simplify", "factor"}

\* The engine functions solve_equation_steps calls, any of which may raise
SolveFaults == {"none", "Eq", "simplify", "pretty", "expand", "Poly",
                "all_coeffs", "lt", "sqrt", "nsimplify", "solve"}

Const(c) == <<c, 0, 0, 0>>

NoEngine == [lhs |-> [poly |-> TRUE, co |-> Const(0)],
             rhs |-> [poly |-> TRUE, co |-> Const(0)],
             rejects |-> FALSE, fault |-> "none"]

\* A name or a number: text the engine surely parses
Plain(t) == t # <<>> /\ \A i \in 1..Len(t) : t[i] \in {"x", "y", "z"}

Digits == <<"0", "1", "2", "3", "4", "5", "6", "7", "8", "9">>

\* One term of a polynomial as the user types it: 2*x^2, -5*x, +6
Term(c, k, first) ==
    (IF c < 0 THEN <<"-">> ELSE IF first THEN <<>> ELSE <<"+">>)
    \o <<Digits[Abs(c) + 1]>>
    \o (IF k >= 1 THEN <<"*", "x">> ELSE <<>>)
    \o (IF k >= 2 THEN <<"^", Digits[k + 1]>> ELSE <<>>)

RECURSIVE TermsFrom(_, _, _)
TermsFrom(co, k, first) ==
    IF k < 0 THEN <<>>
    ELSE IF co[k + 1] = 0 THEN TermsFrom(co, k - 1, first)
    ELSE Term(co[k + 1], k, first) \o TermsFrom(co, k - 1, FALSE)

\* The text of a polynomial, highest power first; "0" for zero
Typed(co) ==
    IF \A i \in 1..Len(co) : co[i] = 0 THEN <<"0">>
    ELSE TermsFrom(co, Len(co) - 1, TRUE)

HasX(co) == \E i \in 2..Len(co) : co[i] # 0

LeftSides ==
    {<<c0, c1, c2, c3>> : c0 \in -MaxCoef..MaxCoef, c1 \in -MaxCoef..MaxCoef,
                          c2 \in -MaxCoef..MaxCoef, c3 \in {0, 1}}

RightSides == {Const(-1), Const(0), Const(1), <<0, 1, 0, 0>>}

\* The spec's two examples, 2*x+3=7 and x^2-5*x+6=0, and a repeated root
Examples == { <<<<3, 2, 0, 0>>, Const(7)>>, <<<<6, -5, 1, 0>>, Const(0)>>,
              <<<<9, -6, 1, 0>>, Const(0)>> }

Equations == (LeftSides \X RightSides) \cup Examples

Shapes == {"plain", "two_symbols", "no_equals", "two_equals", "bad_lhs",
           "bad_rhs", "function"}

\* The text of an equation in one of the shapes a user may give it
EquationText(l, r, shape) ==
    CASE shape = "plain" -> Typed(l) \o S_eq \o Typed(r)
      [] shape = "two_symbols" -> Typed(l) \o <<"+", "y">> \o S_eq \o Typed(r)
      [] shape = "no_equals" -> Typed(l)
      [] shape = "two_equals" -> Typed(l) \o S_eq \o Typed(r) \o S_eq \o <<"0">>
      [] shape = "bad_lhs" -> Typed(l) \o <<"(">> \o S_eq \o Typed(r)
      [] shape = "bad_rhs" -> Typed(l) \o S_eq \o Typed(r) \o <<"+">>
      [] shape = "function" ->
           <<"s", "i", "n", "(", "x", ")", "+">> \o Typed(l) \o S_eq \o Typed(r)

\* What the engine makes of that text
EquationEngine(l, r, shape, fault) ==
    [lhs |-> [poly |-> shape # "function", co |-> l],
     rhs |-> [poly |-> TRUE, co |-> r],
     rejects |-> FALSE, fault |-> fault]

CallHeads == { <<>>, <<"d", "i", "f", "f", "(">>, <<"D", "i", "f", "f", "(">>,
               <<" ", "d", "i", "f", "f", "(">>,
               <<"i", "n", "t", "e", "g", "r", "a", "t", "e", "(">> }

CallBodies == { <<"x", "*", "y">>, <<"x", "^", "2">>, <<"s", "i", "n", "(", "x", ")">>,
                <<"2">> }

CallTails == { <<>>, <<")">>, <<",", "y", ")">>, <<",", " ", "y", " ", ")">>,
               <<",", ")">>, <<",", "x", ",", "y", ")">> }

CallTexts == {h \o b \o t : h \in CallHeads, b \in CallBodies, t \in CallTails}

\* The caller's var: None, or a name
Vars == { <<>>, << <<"y">> >>, << <<"z">> >> }

NoOutcome == With(Ret(Absent, <<>>, <<>>, "", <<>>), <<>>, 0)

Ready(t, k, v, e) ==
    /\ pc = "ready"
    /\ fn = ""
    /\ text = t
    /\ kind = k
    /\ var = v
    /\ eng = e
    /\ out = NoOutcome

InitText == \E t \in TextsOf(TextFrags) : Ready(t, "auto", <<>>, NoEngine)

InitModes ==
    \E t \in TextsOf(ModeFrags), k \in Kinds :
        \E rj \in (IF Plain(sanitize_input(t)) THEN {FALSE} ELSE BOOLEAN),
           f \in {"none", "N"} :
            Ready(t, k, <<>>, [NoEngine EXCEPT !.rejects = rj, !.fault = f])

InitSolve ==
    \E q \in Equations, shape \in Shapes, f \in SolveFaults :
        /\ shape # "plain" => f = "none"
        /\ shape = "two_symbols" => HasX(q[1])
        /\ Ready(EquationText(q[1], q[2], shape), "auto", <<>>,
                 EquationEngine(q[1], q[2], shape, f))

InitCalls ==
    \E t \in CallTexts, v \in Vars,
       f \in {"none", "pretty", "simplify", "diff", "integrate"} :
        \E rj \in (IF f = "none" THEN BOOLEAN ELSE {FALSE}) :
            Ready(t, "auto", v, [NoEngine EXCEPT !.rejects = rj, !.fault = f])

(***************************************************************************)
(* The operations.  Each call runs to its return in one step.              *)
(***************************************************************************)
Done(name, o) ==
    /\ pc = "ready"
    /\ pc' = "done"
    /\ fn' = name
    /\ out' = o
    /\ UNCHANGED <<text, kind, var, eng>>

SanitizeInput ==
    Done("sanitize_input", [NoOutcome EXCEPT !.str = sanitize_input(text)])

DetectSymbols ==
    Done("detect_symbols",
         [NoOutcome EXCEPT !.names = detect_symbols(text), !.calls = <<"symbols">>])

SolveEquationSteps ==
    Done("solve_equation_steps",
         With(solve_equation_steps(text, eng), <<"solve">>, 0))

SimplifySteps ==
    Done("simplify_steps", With(simplify_steps(text, eng), <<"simplify">>, 0))

DerivativeSteps ==
    Done("derivative_steps", With(derivative_steps(text, var, eng), <<"diff">>, 0))

IntegralSteps ==
    Done("integral_steps", With(integral_steps(text, var, eng), <<"integrate">>, 0))

Index == Done("index", index(text, kind, eng))

ApiSolve == Done("api_solve", api_solve(text, kind, eng))

NextText == SanitizeInput \/ DetectSymbols

NextSolve == SolveEquationSteps

NextNarrators ==
    SolveEquationSteps \/ SimplifySteps \/ DerivativeSteps \/ IntegralSteps

Next == Index \/ ApiSolve

\* The two request handlers on free-form queries
Spec == InitModes /\ [][Next]_vars

\* The normaliser and the symbol detector on free-form text
SpecText == InitText /\ [][NextText]_vars

\* solve_equation_steps on typed equations
SpecSolve == InitSolve /\ [][NextSolve]_vars

\* The four narrators on equations and on call forms
SpecNarrators == (InitSolve \/ InitCalls) /\ [][NextNarrators]_vars

(***************************************************************************)
(* The claims.                                                             *)
(***************************************************************************)
Narrators == {"solve_equation_steps", "derivative_steps", "integral_steps",
              "simplify_steps"}

Handlers == {"index", "api_solve"}

CountOf(t, c) == Cardinality({i \in 1..Len(t) : t[i] = c})

\* C1: with an explicit mode (solve, diff, integrate, simplify) both
\* handlers run exactly that mode's narrator, whatever the query text is
\* (stated for the queries that are not empty, which api_solve refuses
\* before it chooses).
C1_ExplicitModeWins ==
    (/\ pc = "done"
     /\ fn \in Handlers
     /\ kind \in {"solve", "diff", "integrate", "simplify"}
     /\ sanitize_input(text) # <<>>)
    => out.op = <<kind>>

\* C2: a mode outside {auto, solve, diff, integrate, simplify} gives the
\* operation and the (result, steps) pair that mode auto gives for the
\* same query.
C2_UnknownModeIsAuto ==
    (/\ pc = "done"
     /\ fn \in Handlers
     /\ kind \notin {"auto", "solve", "diff", "integrate", "simplify"})
    => /\ fn = "index" => out = index(text, "auto", eng)
       /\ fn = "api_solve" => out = api_solve(text, "auto", eng)

\* The claim's rule list: the operation that auto mode must choose.
ClaimedAutoRule(query) ==
    LET qlow == Lower(query)
    IN  IF Contains(query, S_eq) THEN "solve"
        ELSE IF StartsWith(qlow, S_diff) \/ Contains(qlow, S_dd) THEN "diff"
        ELSE IF StartsWith(qlow, S_int) \/ Contains(qlow, S_integrate) THEN "integrate"
        ELSE IF Contains(qlow, S_simplify) \/ Contains(query, S_slash) THEN "simplify"
        ELSE "evaluate"

\* C3: in auto mode both handlers apply the rules in priority order, the
\* first match winning ('=' before diff before integrate before simplify
\* before evaluate), and under the last rule a query that does not parse
\* falls back to simplify (stated for the queries that are not empty).
C3_AutoPriority ==
    (/\ pc = "done"
     /\ fn \in Handlers
     /\ kind = "auto"
     /\ sanitize_input(text) # <<>>)
    => /\ out.op # <<>>
       /\ out.op[1] = ClaimedAutoRule(sanitize_input(text))
       /\ (out.op[1] = "evaluate" /\ ~sympify_ok(sanitize_input(text), eng))
             => out.op = <<"evaluate", "simplify">>

\* C4: no narrator lets a failure of an engine call out: whatever engine
\* call fails, the narrator returns a (result, steps) pair to its caller.
C4_NarratorsCatch ==
    (pc = "done" /\ fn \in Narrators) => ~out.raised

\* C5: solve_equation_steps on a text with no '=' or with more than one
\* returns no result and the single step that states the requirement,
\* before any engine call.
C5_MalformedEquation ==
    (/\ pc = "done"
     /\ fn = "solve_equation_steps"
     /\ CountOf(text, "=") # 1)
    => /\ ~out.raised
       /\ out.result = Absent
       /\ out.steps = <<"Equation must contain exactly one '=' sign.">>
       /\ out.calls = <<>>

C5_Witness ==
    /\ pc = "done"
    /\ fn = "solve_equation_steps"
    /\ CountOf(text, "=") = 2
    /\ out.branch = "malformed"

\* The equation went down the special path for degree 1 or 2 and returned.
Specialised ==
    /\ pc = "done"
    /\ fn = "solve_equation_steps"
    /\ out.branch \in {"linear", "quadratic"}
    /\ ~out.raised

\* C6 as stated: for an equation of degree 1 or 2 the special path's
\* result is the general solver's result for the same equation: the same
\* solutions, each as often, whatever order the engine lists them in.
C6_SameList ==
    Specialised =>
        LET general == sp_solve(eng, detect_symbols(sanitize_input(text)))
        IN  /\ Len(out.result.val) = Len(general)
            /\ Range(out.result.val) = Range(general)

\* C6 as amended: for an equation of degree 1 or 2 the special path
\* returns the solutions of the equation and nothing else: as sets, its
\* result and the general solver's are equal.
C6_SameRoots ==
    Specialised => Range(out.result.val) = RootSet(Difference(eng.lhs, eng.rhs))

C6_Witness ==
    /\ Specialised
    /\ out.branch = "quadratic"
    /\ out.result.val[1] = out.result.val[2]
    /\ Len(sp_solve(eng, detect_symbols(sanitize_input(text)))) = 1

\* C7: one pass of sanitize_input leaves a text that a second pass does not
\* change, with no '^', no division glyph and no white space at either end.
C7_Idempotent ==
    (pc = "done" /\ fn = "sanitize_input")
    => /\ sanitize_input(out.str) = out.str
       /\ \A i \in 1..Len(out.str) : out.str[i] \notin {"^", "U+00F7"}
       /\ out.str # <<>> => ~IsSpace(Head(out.str)) /\ ~IsSpace(Last(out.str))

C7_Witness ==
    /\ pc = "done"
    /\ fn = "sanitize_input"
    /\ Len(text) >= 3
    /\ IsSpace(text[1])
    /\ IsSpace(text[2])
    /\ "^" \in Range(text)
    /\ out.str = <<"*", "*">>

\* Every run of letters in the text is a reserved function name.
OnlyReserved(t) ==
    \A i \in 1..Len(t) :
        IsLetter(t[i]) =>
            \E a \in 1..i, b \in i..Len(t) :
                /\ Lower(SubSeq(t, a, b)) \in funcs
                /\ a = 1 \/ ~IsLetter(t[a - 1])
                /\ b = Len(t) \/ ~IsLetter(t[b + 1])

\* C8: detect_symbols returns at least one symbol and none whose lower-case
\* form is a reserved function name; on a text made of reserved names only,
\* or without letters, it returns exactly the default symbol x.
C8_Symbols ==
    (pc = "done" /\ fn = "detect_symbols")
    => /\ out.names # <<>>
       /\ \A i \in 1..Len(out.names) : Lower(out.names[i]) \notin funcs
       /\ OnlyReserved(text) => out.names = <<DefaultSymbol>>

C8_Witness ==
    /\ pc = "done"
    /\ fn = "detect_symbols"
    /\ "S" \in Range(text)
    /\ "q" \in Range(text)
    /\ OnlyReserved(text)
    /\ out.names = <<DefaultSymbol>>

\* C9: in derivative_steps and integral_steps a non-empty var of the caller
\* is the variable used, and detect_symbols is not asked, whenever the text
\* names no variable of its own (a bare expression, or a call form without
\* a comma); stated for the calls that reach the differentiation or the
\* integration.
C9_CallerVarWins ==
    (/\ pc = "done"
     /\ fn \in {"derivative_steps", "integral_steps"}
     /\ out.branch \in {"diff", "integrate"}
     /\ ~out.raised
     /\ var # <<>>
     /\ CountOf(text, ",") = 0)
    => /\ out.usedVar = var[1]
       /\ \A i \in 1..Len(out.calls) : out.calls[i] # "symbols"

\* C10: the degree-1 path never finds a leading coefficient of 0, and an
\* equation whose zero-form has no term in the variable goes to the general
\* solver.
C10_LinearLeadNonZero ==
    (pc = "done" /\ fn = "solve_equation_steps")
    => /\ out.branch # "linear_a_zero"
       /\ (/\ out.branch \notin {"malformed", "parse_error", "head"}
           /\ ~HasX(Difference(eng.lhs, eng.rhs)))
             => out.branch = "general"

C10_Witness ==
    /\ pc = "done"
    /\ fn = "solve_equation_steps"
    /\ HasX(eng.lhs.co)
    /\ ~HasX(Difference(eng.lhs, eng.rhs))
    /\ eng.lhs.poly
    /\ eng.fault = "none"
    /\ out.branch = "general"
    /\ out.result.kind = "list"

====
